---- MODULE Spec2Model ----
(***************************************************************************)
(* Model of python_file_rename.py: the FileRenamer class (file listing,    *)
(* the six renaming rules, preview and execution of a plan) and the        *)
(* interactive loop of main().                                             *)
(*                                                                         *)
(* A string is a sequence of one-character strings.  A path is written     *)
(* relative to the renamed folder, as the sequence of its components:      *)
(* <<name>> is a file of the folder, <<"..", name>> a file of the parent   *)
(* directory, <<>> the folder itself.                                      *)
(***************************************************************************)
EXTENDS Integers, Sequences, FiniteSets, TLC

----------------------------------------------------------------------------
(* Characters and Python string methods                                    *)

Lowers == <<"a","b","c","d","e","f","g","h","i","j","k","l","m",
            "n","o","p","q","r","s","t","u","v","w","x","y","z">>
Uppers == <<"A","B","C","D","E","F","G","H","I","J","K","L","M",
            "N","O","P","Q","R","S","T","U","V","W","X","Y","Z">>
Digits == <<"0","1","2","3","4","5","6","7","8","9">>

Range(tbl) == {tbl[i] : i \in DOMAIN tbl}
IndexIn(c, tbl) == CHOOSE i \in DOMAIN tbl : tbl[i] = c

LowerSet == Range(Lowers)
UpperSet == Range(Uppers)
DigitSet == Range(Digits)

IsLower(c) == c \in LowerSet
IsUpper(c) == c \in UpperSet
IsDigit(c) == c \in DigitSet
IsCased(c) == IsLower(c) \/ IsUpper(c)
IsSpace(c) == c = " "

\* the characters that occur in the modelled names and inputs
Alphabet == LowerSet \cup UpperSet \cup DigitSet
              \cup {" ", "!", "%", "-", ".", "/", "_"}

\* ord(c): the code point, which orders strings (and so sorted paths)
OrdTable ==
  [c \in Alphabet |->
     IF IsLower(c) THEN 96 + IndexIn(c, Lowers)
     ELSE IF IsUpper(c) THEN 64 + IndexIn(c, Uppers)
     ELSE IF IsDigit(c) THEN 47 + IndexIn(c, Digits)
     ELSE CASE c = " " -> 32
            [] c = "!" -> 33
            [] c = "%" -> 37
            [] c = "-" -> 45
            [] c = "." -> 46
            [] c = "/" -> 47
            [] c = "_" -> 95]
Ord(c) == OrdTable[c]

\* the value of a decimal digit
DigitValue(c) == Ord(c) - Ord("0")

LowerTable == [c \in Alphabet |-> IF IsUpper(c) THEN Lowers[IndexIn(c, Uppers)] ELSE c]
UpperTable == [c \in Alphabet |-> IF IsLower(c) THEN Uppers[IndexIn(c, Lowers)] ELSE c]
LowerChar(c) == LowerTable[c]
UpperChar(c) == UpperTable[c]

\* str.lower(), str.upper()
Lower(s) == [i \in 1..Len(s) |-> LowerChar(s[i])]
Upper(s) == [i \in 1..Len(s) |-> UpperChar(s[i])]

\* str.capitalize(): first character upper-cased, the rest lower-cased
Capitalize(s) ==
  [i \in 1..Len(s) |-> IF i = 1 THEN UpperChar(s[i]) ELSE LowerChar(s[i])]

\* str.title(): a cased character is upper-cased when the character before it
\* is not cased, lower-cased otherwise
Title(s) ==
  [i \in 1..Len(s) |->
     IF i > 1 /\ IsCased(s[i-1]) THEN LowerChar(s[i]) ELSE UpperChar(s[i])]

\* str.strip(): leading and trailing whitespace removed
RECURSIVE LStrip(_)
LStrip(s) == IF s # <<>> /\ IsSpace(Head(s)) THEN LStrip(Tail(s)) ELSE s
RECURSIVE RStrip(_)
RStrip(s) == IF s # <<>> /\ IsSpace(s[Len(s)])
             THEN RStrip(SubSeq(s, 1, Len(s) - 1)) ELSE s
Strip(s) == RStrip(LStrip(s))

\* s.startswith(p); ci: compare ignoring case
StartsWith(s, p, ci) ==
  /\ Len(p) <= Len(s)
  /\ \A i \in 1..Len(p) :
       IF ci THEN LowerChar(s[i]) = LowerChar(p[i]) ELSE s[i] = p[i]

\* str.replace(old, new) and re.sub(re.escape(old), new, s, flags=IGNORECASE):
\* leftmost non-overlapping matches are replaced; an empty pattern matches
\* before every character and at the end
RECURSIVE ReplaceFrom(_, _, _, _)
ReplaceFrom(s, old, new, ci) ==
  IF old = <<>>
  THEN IF s = <<>> THEN new
       ELSE new \o <<Head(s)>> \o ReplaceFrom(Tail(s), old, new, ci)
  ELSE IF s = <<>> THEN <<>>
  ELSE IF StartsWith(s, old, ci)
       THEN new \o ReplaceFrom(SubSeq(s, Len(old) + 1, Len(s)), old, new, ci)
       ELSE <<Head(s)>> \o ReplaceFrom(Tail(s), old, new, ci)

Replace(s, old, new) == ReplaceFrom(s, old, new, FALSE)
ReSubIgnoreCase(s, old, new) == ReplaceFrom(s, old, new, TRUE)

\* the characters kept by re.sub(r'[^a-zA-Z0-9\s\-_]', '', s)
IsKept(c) == IsCased(c) \/ IsDigit(c) \/ IsSpace(c) \/ c = "-" \/ c = "_"

RECURSIVE Filter(_, _)
Filter(s, keep) ==
  IF s = <<>> THEN <<>>
  ELSE IF Head(s) \in keep THEN <<Head(s)>> \o Filter(Tail(s), keep)
       ELSE Filter(Tail(s), keep)

CharsOf(s) == {s[i] : i \in 1..Len(s)}
ReSubSpecial(s) == Filter(s, {c \in CharsOf(s) : IsKept(c)})

\* str(n) for an integer n
RECURSIVE NatStr(_)
NatStr(n) == IF n < 10 THEN <<Digits[n + 1]>>
             ELSE NatStr(n \div 10) \o <<Digits[(n % 10) + 1]>>
Str(n) == IF n < 0 THEN <<"-">> \o NatStr(0 - n) ELSE NatStr(n)

\* str.zfill(width): zeros inserted after a leading sign up to the width
Zeros(k) == [i \in 1..k |-> "0"]
ZFill(s, width) ==
  IF Len(s) >= width THEN s
  ELSE IF s # <<>> /\ Head(s) \in {"+", "-"}
       THEN <<Head(s)>> \o Zeros(width - Len(s)) \o Tail(s)
       ELSE Zeros(width - Len(s)) \o s

\* int(s): an optional sign and decimal digits, surrounding whitespace
\* ignored; anything else raises ValueError
Unsigned(s) == IF s # <<>> /\ Head(s) \in {"+", "-"} THEN Tail(s) ELSE s
IsIntLiteral(s) ==
  LET u == Unsigned(Strip(s))
  IN  u # <<>> /\ \A i \in 1..Len(u) : IsDigit(u[i])
RECURSIVE DigitsValue(_)
DigitsValue(u) ==
  IF u = <<>> THEN 0
  ELSE 10 * DigitsValue(SubSeq(u, 1, Len(u) - 1)) + DigitValue(u[Len(u)])
PyInt(s) ==
  LET t == Strip(s)
  IN  IF Head(t) = "-" THEN 0 - DigitsValue(Unsigned(t)) ELSE DigitsValue(Unsigned(t))

\* string comparison by code points
RECURSIVE StrLess(_, _)
StrLess(s, t) ==
  IF t = <<>> THEN FALSE
  ELSE IF s = <<>> THEN TRUE
  ELSE IF Head(s) = Head(t) THEN StrLess(Tail(s), Tail(t))
  ELSE Ord(Head(s)) < Ord(Head(t))

----------------------------------------------------------------------------
(* Paths and the file system                                               *)

DotDot == <<".", ".">>
Root   == <<"/">>
Dir    == 0     \* what the file system maps a directory to; files map to ids > 0

\* s.split("/")
RECURSIVE SplitFrom(_, _)
SplitFrom(s, cur) ==
  IF s = <<>> THEN <<cur>>
  ELSE IF Head(s) = "/" THEN <<cur>> \o SplitFrom(Tail(s), <<>>)
       ELSE SplitFrom(Tail(s), Append(cur, Head(s)))
Split(s) == SplitFrom(s, <<>>)

IsPart(c) == c # <<>> /\ c # <<".">>

\* file.parent / new_name (pathlib): an absolute new_name replaces the
\* parent; empty and "." components are dropped, ".." components are kept
JoinPath(new_name) ==
  LET parts == SelectSeq(Split(new_name), IsPart)
  IN  IF new_name # <<>> /\ Head(new_name) = "/" THEN <<Root>> \o parts ELSE parts

\* Path.name
PathName(p) == IF p = <<>> THEN <<>> ELSE p[Len(p)]
PathParent(p) == SubSeq(p, 1, Len(p) - 1)

RFind(s, c) == IF \E i \in 1..Len(s) : s[i] = c
               THEN CHOOSE i \in 1..Len(s) :
                      s[i] = c /\ \A j \in (i+1)..Len(s) : s[j] # c
               ELSE 0

\* Path.suffix and Path.stem: the name is cut at its last dot, unless that
\* dot is the first or the last character
HasSuffix(name) == 1 < RFind(name, ".") /\ RFind(name, ".") < Len(name)
Suffix(name) == IF HasSuffix(name)
                THEN SubSeq(name, RFind(name, "."), Len(name)) ELSE <<>>
Stem(name)   == IF HasSuffix(name)
                THEN SubSeq(name, 1, RFind(name, ".") - 1) ELSE name

\* the directories of the modelled world: the folder, its parent, the root
\* and the subdirectories recorded in the file system
IsDirectory(f, p) ==
  \/ p \in {<<>>, <<DotDot>>, <<Root>>}
  \/ p \in DOMAIN f /\ f[p] = Dir

\* Path.exists()
Exists(f, p) == p \in DOMAIN f \/ IsDirectory(f, p)

\* Path.is_file()
IsFile(f, p) == p \in DOMAIN f /\ f[p] # Dir

\* os.rename(src, dst) succeeds when the directory of dst exists (POSIX: a
\* file at dst is replaced); otherwise it raises
CanRename(f, src, dst) ==
  /\ src \in DOMAIN f
  /\ dst # <<>> /\ ~IsDirectory(f, dst)
  /\ IsDirectory(f, PathParent(dst))

Renamed(f, src, dst) ==
  [p \in (DOMAIN f \ {src}) \cup {dst} |-> IF p = dst THEN f[src] ELSE f[p]]

\* folder_path.iterdir(): the names of the entries of the folder
IterDir(f) == {p[1] : p \in {q \in DOMAIN f : Len(q) = 1}}

\* sorted(files)
RECURSIVE Sorted(_)
Sorted(S) ==
  IF S = {} THEN <<>>
  ELSE LET m == CHOOSE x \in S : \A y \in S \ {x} : StrLess(x, y)
       IN  <<m>> \o Sorted(S \ {m})

\* extensions=None
NoExtensions == [given |-> FALSE, exts |-> {}]

\* FileRenamer.get_files
get_files(f, extensions) ==
  Sorted({name \in IterDir(f) :
            /\ IsFile(f, <<name>>)
            /\ (~extensions.given \/ Lower(Suffix(name)) \in extensions.exts)})

----------------------------------------------------------------------------
(* The clock and datetime.now().strftime                                   *)

\* the clock counts seconds from 2023-12-15 00:00:00; the run starts in the
\* last second of that day
StartOfRun == 24 * 3600 - 1

TwoDigits(n) == ZFill(Str(n), 2)

\* the value of one directive at time t (no month is crossed within the bound)
Directive(c, t) ==
  LET sod == t % (24 * 3600)
  IN  CASE c = "Y" -> <<"2","0","2","3">>
        [] c = "m" -> <<"1","2">>
        [] c = "d" -> TwoDigits(15 + (t \div (24 * 3600)))
        [] c = "H" -> TwoDigits(sod \div 3600)
        [] c = "M" -> TwoDigits((sod % 3600) \div 60)
        [] c = "S" -> TwoDigits(sod % 60)
        [] c = "%" -> <<"%">>
        [] OTHER   -> <<"%", c>>

\* strftime(timestamp_format)
RECURSIVE Strftime(_, _)
Strftime(fmt, t) ==
  IF fmt = <<>> THEN <<>>
  ELSE IF Head(fmt) = "%" /\ Len(fmt) >= 2
       THEN Directive(fmt[2], t) \o Strftime(SubSeq(fmt, 3, Len(fmt)), t)
       ELSE <<Head(fmt)>> \o Strftime(Tail(fmt), t)

----------------------------------------------------------------------------
(* The six rules: each builds the list "changes" of (file, new_path)        *)

Change(name, new_name) == [old |-> <<name>>, new |-> JoinPath(new_name)]

\* FileRenamer.add_prefix_suffix, lines 40-49
add_prefix_suffix(f, prefix, suffix, extensions) ==
  LET files == get_files(f, extensions)
  IN  [i \in 1..Len(files) |->
         Change(files[i], prefix \o Stem(files[i]) \o suffix \o Suffix(files[i]))]

\* the position of the file left out of the number
SeqNumberWithoutIndex(start_num, i, padding) == ZFill(Str(start_num), padding)

\* FileRenamer.sequential_rename, lines 59-68; enumerate counts from 0
SeqNumber(start_num, i, padding) == ZFill(Str(start_num + i), padding)

sequential_rename(f, base_name, start_num, padding, extensions) ==
  LET files == get_files(f, extensions)
  IN  [k \in 1..Len(files) |->
         Change(files[k], base_name \o <<"_">>
                          \o SeqNumber(start_num, k - 1, padding)
                          \o Suffix(files[k]))]

\* the changes of the files whose stem the rule alters
StemChanges(files, NewStem(_)) ==
  LET Altered(name) == NewStem(Stem(name)) # Stem(name)
      sel == SelectSeq(files, Altered)
  IN  [i \in 1..Len(sel) |-> Change(sel[i], NewStem(Stem(sel[i])) \o Suffix(sel[i]))]

\* FileRenamer.replace_text, lines 78-93
ReplacedStem(stem, old_text, new_text, case_sensitive) ==
  IF case_sensitive THEN Replace(stem, old_text, new_text)
  ELSE ReSubIgnoreCase(stem, old_text, new_text)

replace_text(f, old_text, new_text, case_sensitive, extensions) ==
  LET NewStem(stem) == ReplacedStem(stem, old_text, new_text, case_sensitive)
  IN  StemChanges(get_files(f, extensions), NewStem)

\* FileRenamer.change_case, lines 103-124; an unknown case_type skips the file
CaseTypes == { <<"l","o","w","e","r">>, <<"u","p","p","e","r">>,
               <<"t","i","t","l","e">>,
               <<"c","a","p","i","t","a","l","i","z","e">> }

CasedStem(stem, case_type) ==
  CASE case_type = <<"l","o","w","e","r">> -> Lower(stem)
    [] case_type = <<"u","p","p","e","r">> -> Upper(stem)
    [] case_type = <<"t","i","t","l","e">> -> Title(stem)
    [] case_type = <<"c","a","p","i","t","a","l","i","z","e">> -> Capitalize(stem)
    [] OTHER -> stem

change_case(f, case_type, extensions) ==
  LET NewStem(stem) == CasedStem(stem, case_type)
  IN  IF case_type \in CaseTypes
      THEN StemChanges(get_files(f, extensions), NewStem)
      ELSE <<>>

\* FileRenamer.remove_characters, lines 134-158
RECURSIVE RemoveEach(_, _)
RemoveEach(stem, chars) ==
  IF chars = <<>> THEN stem
  ELSE RemoveEach(Replace(stem, <<Head(chars)>>, <<>>), Tail(chars))

CleanedStem(stem, chars_to_remove, remove_spaces, remove_special) ==
  LET s1 == RemoveEach(stem, chars_to_remove)
      s2 == IF remove_spaces THEN Replace(s1, <<" ">>, <<"_">>) ELSE s1
  IN  IF remove_special THEN ReSubSpecial(s2) ELSE s2

remove_characters(f, chars_to_remove, remove_spaces, remove_special, extensions) ==
  LET NewStem(stem) == CleanedStem(stem, chars_to_remove, remove_spaces, remove_special)
  IN  StemChanges(get_files(f, extensions), NewStem)

\* FileRenamer.add_timestamp, lines 168-182; t is what datetime.now() returns
Stamped(name, timestamp, position) ==
  IF position = <<"p","r","e","f","i","x">>
  THEN timestamp \o <<"_">> \o Stem(name) \o Suffix(name)
  ELSE Stem(name) \o <<"_">> \o timestamp \o Suffix(name)

add_timestamp(f, t, timestamp_format, position, extensions) ==
  LET files == get_files(f, extensions)
      timestamp == Strftime(timestamp_format, t)
  IN  [i \in 1..Len(files) |-> Change(files[i], Stamped(files[i], timestamp, position))]

----------------------------------------------------------------------------
(* Bounds and the inputs drawn by the model                                *)

MaxFiles == 2    \* files of the folder at the start
MaxRuns  == 1    \* runs of _execute_changes that are followed
MaxTicks == 1    \* seconds the clock advances

\* the file names the folder is filled from; a file's content is identified
\* by the position of its first name in this list
NamePool == << <<"a",".","t","x","t">>,
               <<"b",".","t","x","t">>,
               <<"A",".","t","x","t">>,
               <<"f","i","l","e","_","0","1",".","t","x","t">>,
               <<"f","i","l","e","_","0","2",".","t","x","t">>,
               <<"a"," ","b","!",".","T","X","T">> >>

FolderOf(ids) == [p \in {<<NamePool[i]>> : i \in ids} |->
                    CHOOSE i \in ids : p = <<NamePool[i]>>]

\* the folders of at most MaxFiles files named from names
Folders(names) ==
  {FolderOf(ids) : ids \in {S \in SUBSET names : Cardinality(S) <= MaxFiles}}

\* a folder that holds a file named "a" and a subdirectory named "b"
WithSubdir == [p \in {<<<<"a">>>>, <<<<"b">>>>} |->
                 IF p = <<<<"a">>>> THEN Len(NamePool) + 1 ELSE Dir]

\* x or default
OrDefault(x, default) == IF x = <<>> THEN default ELSE x

File   == <<"f","i","l","e">>
Prefix == <<"p","r","e","f","i","x">>
Ymd    == <<"%","Y","%","m","%","d">>
Hms    == <<"%","H","%","M","%","S">>

----------------------------------------------------------------------------
(* State                                                                   *)

VARIABLES
  fs,          \* the file system: path -> file id, or Dir
  now,         \* the clock
  pc,          \* where the caller stands: "menu", "confirm", "done" in main();
               \* "idle" for a direct caller; "exec" inside _execute_changes
  notice,      \* the last message printed
  runs,        \* the number of completed runs of _execute_changes
  \* the locals of the caller during a pass through the loop of main(), or
  \* around a direct call
  choice,      \* the menu choice read (line 252)
  args,        \* the parameters of the rule
  site,        \* the call made last: "preview" (main(), preview=True, e.g. line
               \* 259), "execute" (main(), preview=False, e.g. line 261),
               \* "api_preview" and "api_execute" (a direct call)
  changes,     \* what the last call returned
  printed,     \* the plan _preview_changes printed (<<>>: none)
  asked,       \* the confirmation prompt was answered
  answer,      \* the answer
  atStart,     \* the file system when the pass, or the direct call, started
  \* the locals of a running _execute_changes
  plan,        \* its parameter changes
  idx,         \* the position of its loop in plan
  successful,  \* its list successful
  failed,      \* its list failed
  before       \* the file system when it was entered

vars == <<fs, now, pc, notice, runs, choice, args, site, changes, printed, asked,
          answer, atStart, plan, idx, successful, failed, before>>

passVars == <<choice, args, site, changes, printed, asked, answer, atStart>>
execVars == <<plan, idx, successful, failed, before>>

NoArgs == [rule |-> 0, prefix |-> <<>>, suffix |-> <<>>, base_name |-> <<>>,
           start_num |-> 0, padding |-> 0, old_text |-> <<>>, new_text |-> <<>>,
           case_sensitive |-> FALSE, case_type |-> <<>>, chars_to_remove |-> <<>>,
           remove_spaces |-> FALSE, remove_special |-> FALSE,
           timestamp_format |-> <<>>, position |-> <<>>,
           extensions |-> NoExtensions]

\* the caller's locals as they stand
Locals == [choice |-> choice, args |-> args, site |-> site, changes |-> changes,
           printed |-> printed, asked |-> asked, answer |-> answer,
           atStart |-> atStart]

\* the caller goes on with the locals cur
Keep(cur) ==
  /\ choice' = cur.choice
  /\ args' = cur.args
  /\ site' = cur.site
  /\ changes' = cur.changes
  /\ printed' = cur.printed
  /\ asked' = cur.asked
  /\ answer' = cur.answer
  /\ atStart' = cur.atStart

\* main() is back at the menu: the locals of the last pass are dead and hold
\* nothing (no step of these changes the file system)
NoPass ==
  /\ choice' = <<>>
  /\ args' = NoArgs
  /\ site' = "none"
  /\ changes' = <<>>
  /\ printed' = <<>>
  /\ asked' = FALSE
  /\ answer' = <<>>
  /\ atStart' = fs

\* _execute_changes is not running
NoExec ==
  /\ plan' = <<>>
  /\ idx' = 1
  /\ successful' = <<>>
  /\ failed' = <<>>
  /\ before' = fs

InitWith(folders, position, a) ==
  /\ fs \in folders
  /\ now = StartOfRun
  /\ pc = position
  /\ notice = "none"
  /\ runs = 0
  /\ choice = <<>>
  /\ args \in a
  /\ site = "none"
  /\ changes = <<>>
  /\ printed = <<>>
  /\ asked = FALSE
  /\ answer = <<>>
  /\ atStart = fs
  /\ plan = <<>>
  /\ idx = 1
  /\ successful = <<>>
  /\ failed = <<>>
  /\ before = fs

----------------------------------------------------------------------------
(* Calling a rule                                                          *)

\* the list "changes" the rule a.rule builds from the file system f at time t
RuleChanges(f, t, a) ==
  CASE a.rule = 1 -> add_prefix_suffix(f, a.prefix, a.suffix, a.extensions)
    [] a.rule = 2 -> sequential_rename(f, a.base_name, a.start_num, a.padding,
                                       a.extensions)
    [] a.rule = 3 -> replace_text(f, a.old_text, a.new_text, a.case_sensitive,
                                  a.extensions)
    [] a.rule = 4 -> change_case(f, a.case_type, a.extensions)
    [] a.rule = 5 -> remove_characters(f, a.chars_to_remove, a.remove_spaces,
                                       a.remove_special, a.extensions)
    [] a.rule = 6 -> add_timestamp(f, t, a.timestamp_format, a.position,
                                   a.extensions)

\* the test of the preview flag inverted
InvertedPreview(preview) == ~preview

\* "if preview:" at the end of every rule (lines 51, 70, 95, 126, 160, 184)
TakesPreviewBranch(preview) == preview

\* "if changes and input(...)": is the confirmation prompt shown
AsksConfirmation(returned) == returned # <<>>

\* anything but "n" taken for a yes
AnythingButNo(ans) == Lower(ans) # <<"n">>

\* ".lower() == 'y'" on the answer
IsYes(ans) == Lower(ans) = <<"y">>

\* the caller after the call cur.site returned `returned`: in main() the
\* preview=True call is followed by the confirmation prompt when the list is
\* not empty, and anything else by the menu; a direct caller is idle again
Return(returned, cur) ==
  IF cur.site \in {"api_preview", "api_execute"}
  THEN pc' = "idle" /\ Keep([cur EXCEPT !.changes = returned])
  ELSE IF cur.site = "preview" /\ AsksConfirmation(returned)
  THEN pc' = "confirm" /\ Keep([cur EXCEPT !.changes = returned])
  ELSE pc' = "menu" /\ NoPass

\* one call rule(..., preview=p) by a caller whose locals are cur
Call(p, cur) ==
  LET ch == RuleChanges(fs, now, cur.args)
  IN  IF TakesPreviewBranch(p)
      THEN \* _preview_changes(changes); return changes
           /\ notice' = IF ch = <<>> THEN "no changes needed" ELSE "preview"
           /\ Return(ch, [cur EXCEPT !.printed = ch])
           /\ NoExec
           /\ UNCHANGED <<fs, runs>>
      ELSE IF ch = <<>>
      THEN \* _execute_changes: "No files to rename."; return []
           /\ notice' = "no files to rename"
           /\ Return(<<>>, cur)
           /\ NoExec
           /\ UNCHANGED <<fs, runs>>
      ELSE \* _execute_changes enters its loop
           /\ pc' = "exec"
           /\ notice' = "renaming"
           /\ plan' = ch
           /\ idx' = 1
           /\ successful' = <<>>
           /\ failed' = <<>>
           /\ before' = fs
           /\ Keep(cur)
           /\ UNCHANGED <<fs, runs>>

----------------------------------------------------------------------------
(* FileRenamer._execute_changes: the loop of lines 211-220                 *)

\* the existence test left out
NoExistenceTest(f, new_path) == FALSE

\* "if new_path.exists():"
TargetExists(f, new_path) == Exists(f, new_path)

\* the try/except placed around the loop: a failure ends it
AbortOnFailure(i, n) == n + 1

\* where the loop goes after pair i of n failed: "except Exception" is inside
\* the loop, so the next pair follows
AfterFailure(i, n) == i + 1

InLoop == pc = "exec" /\ idx <= Len(plan)
LoopDone == pc = "exec" /\ idx > Len(plan)

Failure(pair, error) == [old |-> pair.old, new |-> pair.new, error |-> error]

\* lines 213-215
ExecConflict ==
  /\ InLoop
  /\ TargetExists(fs, plan[idx].new)
  /\ failed' = Append(failed, Failure(plan[idx], "Target file already exists"))
  /\ idx' = AfterFailure(idx, Len(plan))
  /\ UNCHANGED <<fs, now, pc, notice, runs, passVars, plan, successful, before>>

\* lines 216-218
ExecRename ==
  /\ InLoop
  /\ ~TargetExists(fs, plan[idx].new)
  /\ CanRename(fs, plan[idx].old, plan[idx].new)
  /\ fs' = Renamed(fs, plan[idx].old, plan[idx].new)
  /\ successful' = Append(successful, plan[idx])
  /\ idx' = idx + 1
  /\ UNCHANGED <<now, pc, notice, runs, passVars, plan, failed, before>>

\* lines 217 and 219-220: rename raises, because the directory of the target
\* does not exist or for a reason outside the model (permissions, a read-only
\* volume)
ExecError ==
  /\ InLoop
  /\ ~TargetExists(fs, plan[idx].new)
  /\ failed' = Append(failed, Failure(plan[idx], "OSError"))
  /\ idx' = AfterFailure(idx, Len(plan))
  /\ UNCHANGED <<fs, now, pc, notice, runs, passVars, plan, successful, before>>

\* lines 222-229: the report, and "return successful"
ExecDone ==
  /\ LoopDone
  /\ notice' = "renaming complete"
  /\ runs' = runs + 1
  /\ Return(successful, Locals)
  /\ NoExec
  /\ UNCHANGED <<fs, now>>

\* time passes while main() waits for input
Tick ==
  /\ pc \in {"menu", "confirm"}
  /\ now - StartOfRun < MaxTicks
  /\ now' = now + 1
  /\ UNCHANGED <<fs, pc, notice, runs, passVars, execVars>>

----------------------------------------------------------------------------
(* A direct caller of the FileRenamer methods: it calls one rule, with      *)
(* parameters drawn at the start, any number of times with preview=True     *)
(* and with preview=False; the clock stands at the instant of the start     *)

OnlyTxt == [given |-> TRUE, exts |-> {<<".","t","x","t">>}]
ExtensionChoices == {NoExtensions, OnlyTxt}

ApiArgs ==
  {[NoArgs EXCEPT !.rule = 1, !.prefix = p, !.suffix = s, !.extensions = e] :
     p \in {<<>>, <<"x">>, <<".",".","/">>}, s \in {<<>>, <<"y">>},
     e \in ExtensionChoices}
  \cup
  {[NoArgs EXCEPT !.rule = 2, !.base_name = File, !.start_num = n, !.padding = w,
                  !.extensions = e] :
     n \in {-1, 0, 1, 2}, w \in {2, 3}, e \in ExtensionChoices}
  \cup
  {[NoArgs EXCEPT !.rule = 3, !.old_text = o, !.new_text = <<"b">>,
                  !.case_sensitive = cs, !.extensions = e] :
     o \in {<<"a">>, <<>>}, cs \in BOOLEAN, e \in ExtensionChoices}
  \cup
  {[NoArgs EXCEPT !.rule = 4, !.case_type = c, !.extensions = e] :
     c \in CaseTypes \cup {<<"b","o","g","u","s">>}, e \in ExtensionChoices}
  \cup
  {[NoArgs EXCEPT !.rule = 5, !.chars_to_remove = c, !.remove_spaces = sp,
                  !.remove_special = x, !.extensions = e] :
     c \in {<<>>, <<"a">>}, sp \in BOOLEAN, x \in BOOLEAN, e \in ExtensionChoices}
  \cup
  {[NoArgs EXCEPT !.rule = 6, !.timestamp_format = f, !.position = q,
                  !.extensions = e] :
     f \in {Ymd, Hms, <<"x">>}, q \in {Prefix, <<"s","u","f","f","i","x">>},
     e \in ExtensionChoices}

InitApi ==
  InitWith(Folders(DOMAIN NamePool) \cup {WithSubdir}, "idle", ApiArgs)

ApiCall(p, name) ==
  /\ pc = "idle"
  /\ runs < MaxRuns
  /\ Call(p, [Locals EXCEPT !.site = name, !.changes = <<>>, !.printed = <<>>,
                             !.atStart = fs])
  /\ UNCHANGED now

\* rule(..., preview=True)
ApiPreview == ApiCall(TRUE, "api_preview")

\* rule(..., preview=False)
ApiExecute == ApiCall(FALSE, "api_execute")

NextApi ==
  \/ ApiPreview \/ ApiExecute
  \/ ExecConflict \/ ExecRename \/ ExecError \/ ExecDone

SpecApi == InitApi /\ [][NextApi]_vars

----------------------------------------------------------------------------
(* main(): the interactive loop                                            *)

\* what the user types at each prompt
ChoiceInputs   == { <<"0">>, <<"1">>, <<" ","2">>, <<"3">>, <<"4">>, <<"5">>, <<"6">>,
                    <<"7">>, <<"8">>, <<>> }
PrefixInputs   == { <<>>, <<" ","x">> }
SuffixInputs   == { <<>> }
BaseInputs     == { <<>> }
StartInputs    == { <<>>, <<"x">> }
PaddingInputs  == { <<"2">>, <<"x">> }
OldTextInputs  == { <<"a">> }
NewTextInputs  == { <<"b">> }
SensitiveInputs == { <<>>, <<"N">> }
CaseInputs     == { <<"L","o","w","e","r">>, <<"b","o","g","u","s">> }
CharsInputs    == { <<"a">> }
SpacesInputs   == { <<>>, <<"Y">> }
SpecialInputs  == { <<"n">> }
FormatInputs   == { <<>>, Hms }
PositionInputs == { <<>> }
AnswerInputs   == { <<"y">>, <<"Y">>, <<"n">>, <<>>, <<" ","y">> }

Digit(k) == <<Digits[k + 1]>>

\* line 252 reads the choice k
Chose(k) ==
  /\ pc = "menu"
  /\ \E c \in ChoiceInputs : Strip(c) = Digit(k)

\* a pass through a rule option: the parameters a are read, then the rule is
\* called with preview=True
StartPass(a) ==
  /\ runs < MaxRuns
  /\ Chose(a.rule)
  /\ Call(TRUE, [choice |-> Digit(a.rule), args |-> a, site |-> "preview",
                 changes |-> <<>>, printed |-> <<>>, asked |-> FALSE,
                 answer |-> <<>>, atStart |-> fs])
  /\ UNCHANGED now

\* lines 257-258
Option1Args ==
  {[NoArgs EXCEPT !.rule = 1, !.prefix = Strip(p), !.suffix = Strip(s)] :
     p \in PrefixInputs, s \in SuffixInputs}

\* lines 264-266, when both numbers are integers
StartText(n) == OrDefault(Strip(n), <<"1">>)
PaddingText(w) == OrDefault(Strip(w), <<"3">>)
Option2Args ==
  {[NoArgs EXCEPT !.rule = 2,
                  !.base_name = OrDefault(Strip(b), File),
                  !.start_num = PyInt(StartText(n)),
                  !.padding = PyInt(PaddingText(w))] :
     b \in BaseInputs,
     n \in {x \in StartInputs : IsIntLiteral(StartText(x))},
     w \in {x \in PaddingInputs : IsIntLiteral(PaddingText(x))}}

\* lines 272-274
Option3Args ==
  {[NoArgs EXCEPT !.rule = 3, !.old_text = Strip(o), !.new_text = Strip(n),
                  !.case_sensitive = (Lower(cs) # <<"n">>)] :
     o \in OldTextInputs, n \in NewTextInputs, cs \in SensitiveInputs}

\* line 281
Option4Args ==
  {[NoArgs EXCEPT !.rule = 4, !.case_type = Lower(Strip(c))] : c \in CaseInputs}

\* lines 287-289
Option5Args ==
  {[NoArgs EXCEPT !.rule = 5, !.chars_to_remove = Strip(c),
                  !.remove_spaces = (Lower(sp) = <<"y">>),
                  !.remove_special = (Lower(x) = <<"y">>)] :
     c \in CharsInputs, sp \in SpacesInputs, x \in SpecialInputs}

\* lines 300-301
Option6Args ==
  {[NoArgs EXCEPT !.rule = 6,
                  !.timestamp_format = OrDefault(Strip(f), Ymd),
                  !.position = OrDefault(Lower(Strip(q)), Prefix)] :
     f \in FormatInputs, q \in PositionInputs}

Option1 == \E a \in Option1Args : StartPass(a)
Option2 == \E a \in Option2Args : StartPass(a)
Option3 == \E a \in Option3Args : StartPass(a)
Option4 == \E a \in Option4Args : StartPass(a)
Option5 == \E a \in Option5Args : StartPass(a)
Option6 == \E a \in Option6Args : StartPass(a)

\* main() returns
Leave(k, message) ==
  /\ pc' = "done"
  /\ notice' = message
  /\ choice' = Digit(k)
  /\ UNCHANGED <<fs, now, runs, args, site, changes, printed, asked, answer, atStart,
                 execVars>>

\* lines 265-266 and 315-316: int() raises ValueError, which the handler
\* around the loop catches: "Error: ..." is printed and main() returns
Option2ValueError ==
  /\ runs < MaxRuns
  /\ Chose(2)
  /\ \E n \in StartInputs, w \in PaddingInputs :
       ~IsIntLiteral(StartText(n)) \/ ~IsIntLiteral(PaddingText(w))
  /\ Leave(2, "error")

\* the confirmation prompt of lines 260, 268, 276, 283, 293, 303 and, on yes,
\* the second call of the rule, with preview=False
Confirm ==
  /\ pc = "confirm"
  /\ \E ans \in AnswerInputs :
       IF IsYes(ans)
       THEN Call(FALSE, [Locals EXCEPT !.site = "execute", !.asked = TRUE,
                                       !.answer = ans])
       ELSE /\ pc' = "menu"
            /\ NoPass
            /\ UNCHANGED <<fs, notice, runs, execVars>>
  /\ UNCHANGED now

\* lines 306-310
ListFiles ==
  /\ Chose(7)
  /\ notice' = "list"
  /\ UNCHANGED <<fs, now, pc, runs, passVars, execVars>>

\* lines 312-313
InvalidOption ==
  /\ pc = "menu"
  /\ \E c \in ChoiceInputs : Strip(c) \notin {Digit(k) : k \in 0..7}
  /\ notice' = "invalid option"
  /\ UNCHANGED <<fs, now, pc, runs, passVars, execVars>>

\* lines 254-255
Exit ==
  /\ Chose(0)
  /\ Leave(0, "exit")

Init == InitWith(Folders(1..3), "menu", {NoArgs})

Next ==
  \/ Option1 \/ Option2 \/ Option2ValueError \/ Option3 \/ Option4 \/ Option5
  \/ Option6 \/ Confirm \/ ListFiles \/ InvalidOption \/ Exit
  \/ ExecConflict \/ ExecRename \/ ExecError \/ ExecDone \/ Tick

Spec == Init /\ [][Next]_vars

----------------------------------------------------------------------------
(* Properties                                                              *)

Names(f) == IterDir(f)
FilesOf(f) == {p \in DOMAIN f : Len(p) = 1 /\ f[p] # Dir}
AfterPreviewCall == site = "api_preview" /\ pc = "idle"

\* C1: a call of a rule with preview=True, repeated or not, leaves the file
\* system, and so the set of file names of the folder, as it was before the call
PreviewIsReadOnly ==
  site = "api_preview" => fs = atStart /\ Names(fs) = Names(atStart)

PreviewIsReadOnlyWitness ==
  /\ AfterPreviewCall
  /\ args.rule = 6
  /\ Len(printed) = 2
  /\ changes = printed

\* C2: when the loop of _execute_changes reaches a pair whose destination
\* exists, the step records the pair as failed, renames nothing, and the source
\* and the destination are still there
ConflictIsSkipped ==
  [][(InLoop /\ Exists(fs, plan[idx].new)) =>
       /\ fs' = fs
       /\ successful' = successful
       /\ failed' = Append(failed, [old |-> plan[idx].old, new |-> plan[idx].new,
                                    error |-> "Target file already exists"])
       /\ plan[idx].old \in DOMAIN fs'
       /\ Exists(fs', plan[idx].new)]_vars

ConflictIsSkippedWitness ==
  /\ pc = "exec"
  /\ idx = 2
  /\ Len(failed) = 1
  /\ failed[1].error = "Target file already exists"
  /\ failed[1].old # failed[1].new
  /\ failed[1].old \in DOMAIN fs
  /\ failed[1].new \in DOMAIN fs
  /\ fs = before

\* the number of times pair i of the plan is on the two lists
TimesRecorded(i) ==
  Cardinality({j \in DOMAIN successful : successful[j] = plan[i]})
    + Cardinality({j \in DOMAIN failed :
                     /\ failed[j].old = plan[i].old
                     /\ failed[j].new = plan[i].new
                     /\ failed[j].error \in {"Target file already exists", "OSError"}})

InPlanOrder(list) ==
  \A j, k \in DOMAIN list :
    j < k => \E a, b \in DOMAIN plan :
               /\ a < b
               /\ plan[a].old = list[j].old
               /\ plan[b].old = list[k].old

\* C3: _execute_changes goes through the whole plan in order whatever fails:
\* the pairs before the position of the loop are each on exactly one of the
\* lists successful and failed, and when the loop ends that is every pair
EveryPairIsRecorded ==
  pc = "exec" =>
    /\ idx <= Len(plan) + 1
    /\ Len(successful) + Len(failed) = idx - 1
    /\ \A i \in 1..(idx - 1) : TimesRecorded(i) = 1
    /\ InPlanOrder(successful)
    /\ InPlanOrder(failed)
    /\ LoopDone => \A i \in DOMAIN plan : TimesRecorded(i) = 1

EveryPairIsRecordedWitness ==
  /\ LoopDone
  /\ Len(plan) = 2
  /\ Len(failed) = 1
  /\ Len(successful) = 1
  /\ failed[1].old = plan[1].old
  /\ successful[1] = plan[2]

\* C4: the prefix/suffix rule called with an empty prefix and an empty suffix
\* returns an empty plan
NoOpPlanIsEmpty ==
  (AfterPreviewCall /\ args.rule = 1 /\ args.prefix = <<>> /\ args.suffix = <<>>)
    => changes = <<>>

\* C5: every pair of the plan a rule builds has a source that the listing
\* returned and a destination that differs from the source
PlanInvariant ==
  AfterPreviewCall =>
    \A i \in DOMAIN changes :
      /\ changes[i].old \in {<<name>> : name \in Range(get_files(fs, args.extensions))}
      /\ changes[i].new # changes[i].old

\* the text between "base_name_" and the extension in the k-th destination
NumberText(k) ==
  LET name == PathName(changes[k].new)
  IN  SubSeq(name, Len(args.base_name) + 2,
             Len(name) - Len(Suffix(PathName(changes[k].old))))

\* C6: the plan of sequential_rename gives the i-th file of the sorted listing
\* (i from 0) the number start_num + i, zero-padded to the width: the numbers
\* increase strictly along the plan and no two destinations are equal
SequentialNumbers ==
  (AfterPreviewCall /\ args.rule = 2) =>
    /\ {changes[k].old : k \in DOMAIN changes}
         = {p \in FilesOf(fs) :
              ~args.extensions.given \/ Lower(Suffix(p[1])) \in args.extensions.exts}
    /\ \A k \in DOMAIN changes :
         LET name == PathName(changes[k].new)
             ext  == Suffix(PathName(changes[k].old))
             text == NumberText(k)
         IN  /\ Len(changes[k].new) = 1
             /\ SubSeq(name, 1, Len(args.base_name) + 1) = args.base_name \o <<"_">>
             /\ SubSeq(name, Len(name) - Len(ext) + 1, Len(name)) = ext
             /\ IsIntLiteral(text)
             /\ PyInt(text) = args.start_num + (k - 1)
             /\ Len(text) >= args.padding
             /\ Len(text) > args.padding => text = Str(args.start_num + (k - 1))
    /\ \A j, k \in DOMAIN changes :
         j < k => /\ StrLess(PathName(changes[j].old), PathName(changes[k].old))
                  /\ PyInt(NumberText(j)) < PyInt(NumberText(k))
                  /\ changes[j].new # changes[k].new

\* the example: a.txt, b.txt with base "file", start 1, padding 2
SequentialNumbersWitness ==
  /\ AfterPreviewCall
  /\ Names(fs) = {NamePool[1], NamePool[2]}
  /\ args.rule = 2 /\ args.base_name = File /\ args.start_num = 1 /\ args.padding = 2
  /\ changes = << [old |-> <<NamePool[1]>>, new |-> <<NamePool[4]>>],
                  [old |-> <<NamePool[2]>>, new |-> <<NamePool[5]>>] >>

RuleChoices == {Digit(k) : k \in 1..6}

\* what main() does around a rename, with the set of answers that confirm
ConfirmedBy(yes) ==
     /\ fs' # fs => /\ pc = "exec" /\ site = "execute"
                    /\ choice \in RuleChoices
                    /\ printed # <<>>
                    /\ asked /\ answer \in yes
     /\ (pc # "exec" /\ pc' = "exec") => /\ pc = "confirm"
                                         /\ printed' # <<>> /\ printed' = changes
                                         /\ asked' /\ answer' \in yes
     /\ (pc = "confirm" /\ pc' # "exec") => fs' = fs /\ pc' \in {"menu", "confirm"}
     /\ (pc = "menu" /\ pc' # "confirm") => fs' = fs /\ pc' \in {"menu", "done"}

\* C7 as amended: in main() a rename is performed only in a pass through a rule
\* option in which a preview was printed and the user then answered "y" or "Y";
\* any other answer, or an empty preview, leads back to the menu with the
\* folder unchanged
RenameOnlyAfterConfirmation == [][ConfirmedBy({<<"y">>, <<"Y">>})]_vars

RenameOnlyAfterConfirmationWitness ==
  /\ pc = "exec"
  /\ site = "execute"
  /\ answer = <<"Y">>
  /\ printed # <<>>
  /\ successful # <<>>
  /\ fs # atStart

\* C7: the same, the only answer that confirms being "y"
RenameOnlyAfterLowerCaseY == [][ConfirmedBy({<<"y">>})]_vars

\* C8: the loop of main() ends only when the user chooses 0
LoopEndsOnlyOnExit == pc = "done" => choice = Digit(0)

\* C9: the plan the preview=False call works on is the plan the preview printed
ExecutedIsPreviewed == (pc = "exec" /\ site = "execute") => plan = printed

\* the names of the folder under which file id is found
NamesOf(f, id) == {p \in FilesOf(f) : f[p] = id}

\* C10: when _execute_changes ends, the folder holds as many files as before,
\* and each of them under exactly one name: its name before, or the
\* destination of a pair on the list successful
NoFileIsLost ==
  LoopDone =>
    /\ Cardinality(FilesOf(fs)) = Cardinality(FilesOf(before))
    /\ \A p \in FilesOf(before) :
         /\ Cardinality(NamesOf(fs, before[p])) = 1
         /\ \A q \in NamesOf(fs, before[p]) :
              \/ q = p
              \/ \E j \in DOMAIN successful :
                   successful[j].old = p /\ successful[j].new = q

====
